---- MODULE Spec2Model ----
(***************************************************************************)
(* A model of the OAI-PMH harvesting client of package oai (oai.go):       *)
(* Request.String, Request.Perform, Request.Harvest,                       *)
(* Response.ResumptionToken and the three consumption strategies           *)
(* HarvestIdentifiers, HarvestRecords and ChannelHarvestIdentifiers.       *)
(* Strings are TLA+ strings, so that String builds the real query string.  *)
(***************************************************************************)
EXTENDS Naturals, Sequences, FiniteSets, TLC

VARIABLES
    caller,       \* the Request as the caller constructed it
    loopvar,      \* the range-variable rule of the language version built with
    req,          \* the Request the harvest works on (mutated in place)
    strategy,     \* which entry point the caller used
    pc,           \* the driver's position in Harvest and its callback
    httpReply,    \* how the last GET ended: its failure and status code
    oaiResponse,  \* the decoded Response of the last Perform
    url,          \* the target of the last http.Get
    nreq,         \* number of http.Get calls issued
    ncb,          \* number of batchCallback invocations
    items,        \* per-item callback log (HarvestIdentifiers, HarvestRecords)
    k,            \* position of the range loop over the page's items
    j,            \* position of the range loop over the channels (sentinels)
    i,            \* the channel index i of ChannelHarvestIdentifiers
    nchan,        \* len(channels)
    capacity,     \* cap() of the caller's channels
    buf,          \* buffered items of each channel
    received,     \* what each channel's consumer has accepted
    consumer,     \* state of each channel's consumer
    sendLog,      \* every completed send of the driver, in order
    header,       \* the range variables header of each fan-out callback
    ret           \* the value returned by a directly called function

vars == <<caller, loopvar, req, strategy, pc, httpReply, oaiResponse, url, nreq,
          ncb, items, k, j, i, nchan, capacity, buf, received, consumer, sendLog, header,
          ret>>

(***************************************************************************)
(* Bounds of the model.                                                    *)
(***************************************************************************)
MaxPages == 2
MaxItems == 2
MaxChannels == 2

(***************************************************************************)
(* Values.                                                                 *)
(***************************************************************************)
Nil == [nil |-> TRUE]

RequestAll == [BaseUrl : {"http://kb.nl/oai"},
               Set : {"", "DTS"},
               MetadataPrefix : {"", "dcx"},
               Verb : {"", "GetRecord"},
               Identifier : {"", "oai:1"},
               ResumptionToken : {"", "t0"},
               From : {"", "2012-09-06T014:00:00.000Z"},
               Until : {"", "2013"}]

\* The Requests a harvest is started with: the one main constructs, one with
\* every field set, and one with the base address alone.
MainRequest ==
    [BaseUrl |-> "http://services.kb.nl/mdo/oai", Set |-> "DTS", MetadataPrefix |-> "dcx",
     Verb |-> "", Identifier |-> "", ResumptionToken |-> "",
     From |-> "2012-09-06T014:00:00.000Z", Until |-> ""]

FullRequest ==
    [BaseUrl |-> "http://kb.nl/oai", Set |-> "DTS", MetadataPrefix |-> "dcx",
     Verb |-> "GetRecord", Identifier |-> "oai:1", ResumptionToken |-> "t0",
     From |-> "2012-09-06T014:00:00.000Z", Until |-> "2013"]

BareRequest ==
    [BaseUrl |-> "http://kb.nl/oai", Set |-> "", MetadataPrefix |-> "",
     Verb |-> "", Identifier |-> "", ResumptionToken |-> "",
     From |-> "", Until |-> ""]

Request == {MainRequest, FullRequest, BareRequest}

\* The capacities of the channels a caller supplies: unbuffered or buffered.
Capacities == {0, 1}

\* The tokens page p may carry: none, its own, or the first page's again.
Tokens(p) == {"", "t1", "t" \o ToString(p)}

\* The range variable of a `for ... range` loop: one variable for the whole
\* loop (language versions before Go 1.22) or a new one at every iteration
\* (from Go 1.22 on).  The package has no go.mod that fixes the version.
RangeVariable == {"per-loop", "per-iteration"}

\* The header / record at position x of page p.
Header(p, x) == [Identifier |-> 10 * p + x]

Record(p, x) == [Header |-> Header(p, x)]

ListIdentifiers(p, n, tok) ==
    [Headers |-> [x \in 1..n |-> Header(p, x)], ResumptionToken |-> tok]

ListRecords(p, n, tok) ==
    [Records |-> [x \in 1..n |-> Record(p, x)], ResumptionToken |-> tok]

\* The error element of a Response: zero-valued, or a protocol-level error.
OAIError == {[Code |-> ""], [Code |-> "badArgument"]}

\* The decoded responses the remote may give as page p: a page of one of the
\* two list shapes, the other shape zero-valued and no error; or an error
\* envelope with no payload list, with or without a token.
Response(p) ==
    { [Error |-> [Code |-> ""],
       ListIdentifiers |-> ListIdentifiers(p, n, tok),
       ListRecords |-> ListRecords(p, 0, "")] : n \in 0..MaxItems, tok \in Tokens(p) }
    \cup
    { [Error |-> [Code |-> ""],
       ListIdentifiers |-> ListIdentifiers(p, 0, ""),
       ListRecords |-> ListRecords(p, n, tok)] : n \in 0..MaxItems, tok \in Tokens(p) }
    \cup
    { [Error |-> [Code |-> "badArgument"],
       ListIdentifiers |-> ListIdentifiers(p, 0, tok),
       ListRecords |-> ListRecords(p, 0, "")] : tok \in {"", "t1"} }

\* What http.Get can return: an error, or a response with a status code;
\* and what reading and decoding the body of page p can come to: reading
\* fails, the body does not decode, or it decodes to a Response.
StatusCodes == {200, 500}

NoReply == [failure |-> "none", StatusCode |-> 0]

GetReply ==
    {[failure |-> "Get", StatusCode |-> 0]}
    \cup [failure : {"none"}, StatusCode : StatusCodes]

Reply(p) ==
    [failure : {"ReadAll", "Unmarshal"}, body : {Nil}]
    \cup [failure : {"none"}, body : Response(p)]

(***************************************************************************)
(* Request.String                                                          *)
(***************************************************************************)
RECURSIVE Join(_, _)
Join(elems, sep) ==
    IF elems = <<>> THEN ""
    ELSE IF Len(elems) = 1 THEN elems[1]
    ELSE elems[1] \o sep \o Join(Tail(elems), sep)

addAlways(qs, name, value) == Append(qs, name \o "=" \o value)

add(qs, name, value) ==
    IF value # "" THEN Append(qs, name \o "=" \o value) ELSE qs

String(r) ==
    LET q1 == add(<<>>, "verb", r.Verb)
        q2 == add(q1, "set", r.Set)
        q3 == add(q2, "metadataPrefix", r.MetadataPrefix)
        q4 == add(q3, "resumptionToken", r.ResumptionToken)
        q5 == add(q4, "identifier", r.Identifier)
        q6 == add(q5, "from", r.From)
        qs == add(q6, "until", r.Until)
    IN  Join(<<r.BaseUrl, "?", Join(qs, "&")>>, "")

(***************************************************************************)
(* Response.ResumptionToken                                                *)
(***************************************************************************)
ResumptionTokenIdentifiersOnly(resp) ==
    IF resp = Nil
    THEN [hasResumptionToken |-> FALSE, resumptionToken |-> ""]
    ELSE [hasResumptionToken |-> (resp.ListIdentifiers.ResumptionToken # ""),
          resumptionToken |-> resp.ListIdentifiers.ResumptionToken]

ResumptionTokenRecordsFirst(resp) ==
    IF resp = Nil
    THEN [hasResumptionToken |-> FALSE, resumptionToken |-> ""]
    ELSE LET t1 == resp.ListRecords.ResumptionToken
             t2 == IF t1 = "" THEN resp.ListIdentifiers.ResumptionToken ELSE t1
         IN  [hasResumptionToken |-> (t2 # ""), resumptionToken |-> t2]

ResumptionTokenUnlessError(resp) ==
    IF resp = Nil \/ resp.Error.Code # ""
    THEN [hasResumptionToken |-> FALSE, resumptionToken |-> ""]
    ELSE LET t1 == resp.ListIdentifiers.ResumptionToken
             t2 == IF t1 = "" THEN resp.ListRecords.ResumptionToken ELSE t1
         IN  [hasResumptionToken |-> (t2 # ""), resumptionToken |-> t2]

ResumptionToken(resp) ==
    IF resp = Nil
    THEN [hasResumptionToken |-> FALSE, resumptionToken |-> ""]
    ELSE LET t1 == resp.ListIdentifiers.ResumptionToken
             t2 == IF t1 = "" THEN resp.ListRecords.ResumptionToken ELSE t1
         IN  [hasResumptionToken |-> (t2 # ""), resumptionToken |-> t2]

(***************************************************************************)
(* The state after the caller has constructed the Request.                 *)
(***************************************************************************)
Blank ==
    /\ strategy = "none"
    /\ pc = "idle"
    /\ httpReply = NoReply
    /\ url = ""
    /\ nreq = 0
    /\ ncb = 0
    /\ items = <<>>
    /\ k = 0
    /\ j = 0
    /\ i = 0
    /\ nchan = 0
    /\ capacity = 0
    /\ buf = <<>>
    /\ received = <<>>
    /\ consumer = <<>>
    /\ sendLog = <<>>
    /\ header = <<>>
    /\ ret = Nil

Init ==
    /\ req \in Request
    /\ caller = req
    /\ loopvar \in RangeVariable
    /\ oaiResponse = Nil
    /\ Blank

chanVars == <<caller, loopvar, nchan, capacity, buf, received, consumer, sendLog, header>>

(***************************************************************************)
(* Entry points.                                                           *)
(***************************************************************************)
\* The caller calls Harvest itself, with a batch callback of its own.
Harvest ==
    /\ pc = "idle"
    /\ strategy' = "Harvest"
    /\ pc' = "Perform"
    /\ UNCHANGED <<req, httpReply, oaiResponse, url, nreq, ncb, items, k, j, i,
                   chanVars, ret>>

HarvestIdentifiers ==
    /\ pc = "idle"
    /\ req' = [req EXCEPT !.Verb = "ListIdentifiers"]
    /\ strategy' = "HarvestIdentifiers"
    /\ pc' = "Perform"
    /\ UNCHANGED <<httpReply, oaiResponse, url, nreq, ncb, items, k, j, i,
                   chanVars, ret>>

\* HarvestRecords that keeps a verb the caller supplied.
HarvestRecordsKeepsVerb ==
    /\ pc = "idle"
    /\ req' = IF req.Verb = "" THEN [req EXCEPT !.Verb = "ListRecords"] ELSE req
    /\ strategy' = "HarvestRecords"
    /\ pc' = "Perform"
    /\ UNCHANGED <<httpReply, oaiResponse, url, nreq, ncb, items, k, j, i,
                   chanVars, ret>>

HarvestRecords ==
    /\ pc = "idle"
    /\ req' = [req EXCEPT !.Verb = "ListRecords"]
    /\ strategy' = "HarvestRecords"
    /\ pc' = "Perform"
    /\ UNCHANGED <<httpReply, oaiResponse, url, nreq, ncb, items, k, j, i,
                   chanVars, ret>>

\* channels: n channels of capacity c, each with a consumer ready to receive.
ChannelHarvestIdentifiers ==
    /\ pc = "idle"
    /\ \E n \in 0..MaxChannels, c \in Capacities :
          /\ n = 0 => c = 0
          /\ nchan' = n
          /\ capacity' = c
          /\ buf' = [ch \in 1..n |-> <<>>]
          /\ received' = [ch \in 1..n |-> <<>>]
          /\ consumer' = [ch \in 1..n |-> "recv"]
    /\ req' = [req EXCEPT !.Verb = "ListIdentifiers"]
    /\ strategy' = "ChannelHarvestIdentifiers"
    /\ pc' = "Perform"
    /\ UNCHANGED <<httpReply, oaiResponse, url, nreq, ncb, items, k, j, i,
                   caller, loopvar, sendLog, header, ret>>

(***************************************************************************)
(* Request.Perform, called by Harvest.  It blocks twice, in http.Get and   *)
(* in ioutil.ReadAll, and other goroutines run meanwhile: Perform issues   *)
(* the GET of req.String(), httpGet is http.Get returning, and ReadAll is  *)
(* ioutil.ReadAll returning, the decoding and the return to Harvest.       *)
(***************************************************************************)
\* What Harvest comes to when Perform panics: the panic is not recovered.
AfterFailureRetry == "Perform"

AfterFailure == "Panic"

Perform ==
    /\ pc = "Perform"
    /\ nreq < MaxPages
    /\ url' = String(req)
    /\ nreq' = nreq + 1
    /\ pc' = "http.Get"
    /\ UNCHANGED <<req, strategy, httpReply, oaiResponse, ncb, items, k, j, i,
                   chanVars, ret>>

\* resp, err := http.Get(...): err is non-nil, or resp has a status code,
\* which Perform does not read.
httpGet ==
    /\ pc = "http.Get"
    /\ \E reply \in GetReply :
          /\ httpReply' = reply
          /\ IF reply.failure # "none"
             THEN pc' = AfterFailure /\ ret' = [panic |-> reply.failure]
             ELSE pc' = "ioutil.ReadAll" /\ UNCHANGED ret
    /\ UNCHANGED <<req, strategy, oaiResponse, url, nreq, ncb, items, k, j, i,
                   chanVars>>

\* body, err := ioutil.ReadAll(resp.Body), xml.Unmarshal(body, &oaiResponse)
\* and the return, at which resp goes out of scope.
ReadAll ==
    /\ pc = "ioutil.ReadAll"
    /\ \E reply \in Reply(nreq) :
          IF reply.failure # "none"
          THEN /\ httpReply' = [httpReply EXCEPT !.failure = reply.failure]
               /\ pc' = AfterFailure
               /\ ret' = [panic |-> reply.failure]
               /\ UNCHANGED oaiResponse
          ELSE /\ httpReply' = NoReply
               /\ pc' = "batchCallback"
               /\ oaiResponse' = reply.body
               /\ UNCHANGED ret
    /\ UNCHANGED <<req, strategy, url, nreq, ncb, items, k, j, i, chanVars>>

(***************************************************************************)
(* batchCallback(oaiResponse): the callback of the strategy in use.        *)
(***************************************************************************)
HeadersReversed ==
    LET h == oaiResponse.ListIdentifiers.Headers
    IN  [x \in 1..Len(h) |-> h[Len(h) + 1 - x]]

Headers == oaiResponse.ListIdentifiers.Headers

Records == oaiResponse.ListRecords.Records

\* Where the fan-out callback goes after its range loop over the headers.
AfterHeadersEveryPage ==
    IF nchan > 0 THEN "sentinel" ELSE "HarvestFurther"

AfterHeadersOnToken ==
    IF ResumptionToken(oaiResponse).hasResumptionToken /\ nchan > 0
    THEN "sentinel" ELSE "HarvestFurther"

AfterHeadersNoSentinel == "HarvestFurther"

AfterHeaders ==
    IF ~ResumptionToken(oaiResponse).hasResumptionToken /\ nchan > 0
    THEN "sentinel" ELSE "HarvestFurther"

\* The page is set aside and the next request is issued before its callback.
batchCallbackDeferred ==
    /\ pc = "batchCallback"
    /\ pc' = "Perform"
    /\ UNCHANGED <<req, strategy, httpReply, oaiResponse, url, nreq, ncb, items,
                   k, j, i, chanVars, ret>>

batchCallback ==
    /\ pc = "batchCallback"
    /\ ncb' = ncb + 1
    /\ k' = 0
    /\ j' = 0
    /\ i' = 0
    /\ pc' = CASE strategy = "Harvest" -> "HarvestFurther"
               [] strategy = "HarvestIdentifiers" ->
                    IF Len(Headers) = 0 THEN "HarvestFurther" ELSE "range"
               [] strategy = "HarvestRecords" ->
                    IF Len(Records) = 0 THEN "HarvestFurther" ELSE "range"
               [] strategy = "ChannelHarvestIdentifiers" ->
                    IF Len(Headers) = 0 THEN AfterHeaders ELSE "range"
    /\ header' = IF strategy = "ChannelHarvestIdentifiers"
                 THEN Append(header, <<>>) ELSE header
    /\ UNCHANGED <<req, strategy, httpReply, oaiResponse, url, nreq, items,
                   caller, loopvar, nchan, capacity, buf, received, consumer, sendLog, ret>>

\* callback(&header) of HarvestIdentifiers, for the header at position k.
HeaderCallback ==
    /\ pc = "range"
    /\ strategy = "HarvestIdentifiers"
    /\ items' = Append(items, Headers[k + 1])
    /\ k' = k + 1
    /\ pc' = IF k + 1 = Len(Headers) THEN "HarvestFurther" ELSE "range"
    /\ UNCHANGED <<req, strategy, httpReply, oaiResponse, url, nreq, ncb, j, i,
                   chanVars, ret>>

\* callback(&record) of HarvestRecords, for the record at position k.
RecordCallback ==
    /\ pc = "range"
    /\ strategy = "HarvestRecords"
    /\ items' = Append(items, Records[k + 1])
    /\ k' = k + 1
    /\ pc' = IF k + 1 = Len(Records) THEN "HarvestFurther" ELSE "range"
    /\ UNCHANGED <<req, strategy, httpReply, oaiResponse, url, nreq, ncb, j, i,
                   chanVars, ret>>

(***************************************************************************)
(* Channels.  A send on a channel of capacity 0 completes when the         *)
(* consumer takes the item; a send on a buffered channel completes when    *)
(* the buffer has room.                                                    *)
(***************************************************************************)
CanSendAlways(ch) == TRUE

CanSend(ch) ==
    IF capacity = 0 THEN consumer[ch + 1] = "recv"
    ELSE Len(buf[ch + 1]) < capacity

Accept(ch, v) ==
    /\ received' = [received EXCEPT ![ch + 1] = Append(@, v)]
    /\ consumer' = [consumer EXCEPT ![ch + 1] = IF v = Nil THEN "done" ELSE "recv"]

\* A send that delivers the item twice.
SendTwice(ch, v) ==
    /\ CanSend(ch)
    /\ sendLog' = sendLog \o <<[channel |-> ch, item |-> v, page |-> nreq],
                               [channel |-> ch, item |-> v, page |-> nreq]>>
    /\ IF capacity = 0
       THEN /\ received' = [received EXCEPT ![ch + 1] = @ \o <<v, v>>]
            /\ consumer' = [consumer EXCEPT ![ch + 1] =
                               IF v = Nil THEN "done" ELSE "recv"]
            /\ UNCHANGED buf
       ELSE /\ buf' = [buf EXCEPT ![ch + 1] = @ \o <<v, v>>]
            /\ UNCHANGED <<received, consumer>>

Send(ch, v) ==
    /\ CanSend(ch)
    /\ sendLog' = Append(sendLog, [channel |-> ch, item |-> v, page |-> nreq])
    /\ IF capacity = 0
       THEN Accept(ch, v) /\ UNCHANGED buf
       ELSE buf' = [buf EXCEPT ![ch + 1] = Append(@, v)]
            /\ UNCHANGED <<received, consumer>>

\* i++, wrapping to 0 at len(channels).
NextChannelStuck(c) == c

NextChannel(c) == IF c + 1 = nchan THEN 0 ELSE c + 1

\* The range clause of the fan-out callback assigns the header at position
\* k to the variable header: under "per-loop" to the one variable of this
\* callback's loop, overwriting it; under "per-iteration" to a new variable.
\* header[c] holds the range variables of the c-th callback's loop.
Assigned ==
    IF loopvar = "per-loop"
    THEN header[ncb] = <<Headers[k + 1]>>
    ELSE Len(header[ncb]) = k + 1

RangeHeader ==
    /\ pc = "range"
    /\ strategy = "ChannelHarvestIdentifiers"
    /\ ~Assigned
    /\ header' = [header EXCEPT ![ncb] =
                     IF loopvar = "per-loop"
                     THEN <<Headers[k + 1]>>
                     ELSE Append(@, Headers[k + 1])]
    /\ UNCHANGED <<req, strategy, pc, httpReply, oaiResponse, url, nreq, ncb,
                   items, k, j, i, caller, loopvar, nchan, capacity, buf, received,
                   consumer, sendLog, ret>>

\* &header: a reference to the range variable of the c-th callback's loop
\* that is in scope, the variable number var of that loop.  Identifier is
\* no part of the reference: it records the identifier the variable held
\* when the reference was sent.
Ref(c) ==
    [loop |-> c, var |-> Len(header[c]),
     Identifier |-> header[c][Len(header[c])].Identifier]

\* channels[i] <- &header, in the iteration for the header at position k.
ChannelSend ==
    /\ pc = "range"
    /\ strategy = "ChannelHarvestIdentifiers"
    /\ nchan > 0
    /\ Assigned
    /\ Send(i, Ref(ncb))
    /\ i' = NextChannel(i)
    /\ k' = k + 1
    /\ pc' = IF k + 1 = Len(Headers) THEN AfterHeaders ELSE "range"
    /\ UNCHANGED <<req, strategy, httpReply, oaiResponse, url, nreq, ncb, items,
                   j, nchan, capacity, caller, loopvar, header, ret>>

\* channels[0] with an empty channel collection: index out of range.
ChannelIndexPanic ==
    /\ pc = "range"
    /\ strategy = "ChannelHarvestIdentifiers"
    /\ nchan = 0
    /\ Assigned
    /\ pc' = "Panic"
    /\ ret' = [panic |-> "index out of range"]
    /\ UNCHANGED <<req, strategy, httpReply, oaiResponse, url, nreq, ncb, items,
                   k, j, i, chanVars>>

\* channel <- nil, for the channel at position j.
SentinelSend ==
    /\ pc = "sentinel"
    /\ Send(j, Nil)
    /\ j' = j + 1
    /\ pc' = IF j + 1 = nchan THEN "HarvestFurther" ELSE "sentinel"
    /\ UNCHANGED <<req, strategy, httpReply, oaiResponse, url, nreq, ncb, items,
                   k, i, nchan, capacity, caller, loopvar, header, ret>>

\* The consumer of channel ch takes the next buffered item.
ConsumerReceive(ch) ==
    /\ capacity > 0
    /\ consumer[ch + 1] = "recv"
    /\ buf[ch + 1] # <<>>
    /\ Accept(ch, Head(buf[ch + 1]))
    /\ buf' = [buf EXCEPT ![ch + 1] = Tail(@)]
    /\ UNCHANGED <<req, strategy, pc, httpReply, oaiResponse, url, nreq, ncb,
                   items, k, j, i, nchan, capacity, caller, loopvar, sendLog, header, ret>>

\* The channel the driver is blocked on or about to send to, if any.
Sending(ch) ==
    \/ pc = "range" /\ strategy = "ChannelHarvestIdentifiers" /\ ch = i
    \/ pc = "sentinel" /\ ch = j

\* The consumer of channel ch stops receiving: it leaves the item it is
\* offered (capacity 0) or the item at the head of its buffer untaken.
ConsumerStop(ch) ==
    /\ consumer[ch + 1] = "recv"
    /\ IF capacity = 0 THEN Sending(ch) ELSE buf[ch + 1] # <<>>
    /\ consumer' = [consumer EXCEPT ![ch + 1] = "stopped"]
    /\ UNCHANGED <<req, strategy, pc, httpReply, oaiResponse, url, nreq,
                   ncb, items, k, j, i, nchan, capacity, caller, loopvar, buf, received,
                   sendLog, header, ret>>

(***************************************************************************)
(* Harvest after the callback: the resumption token check and the          *)
(* recursive call.                                                         *)
(***************************************************************************)
\* The Request of the next page: the filters cleared, the token installed.
ContinuationKeepsFrom(r, resumptionToken) ==
    [r EXCEPT !.Set = "", !.MetadataPrefix = "",
              !.ResumptionToken = resumptionToken]

ContinuationClearsUntil(r, resumptionToken) ==
    [r EXCEPT !.Set = "", !.MetadataPrefix = "", !.From = "", !.Until = "",
              !.ResumptionToken = resumptionToken]

Continuation(r, resumptionToken) ==
    [r EXCEPT !.Set = "", !.MetadataPrefix = "", !.From = "",
              !.ResumptionToken = resumptionToken]

\* Harvest with cycle detection: a token equal to the one just sent ends it.
HarvestFurtherUnlessRepeated ==
    /\ pc = "HarvestFurther"
    /\ LET t == ResumptionToken(oaiResponse)
       IN  IF t.hasResumptionToken = TRUE /\ t.resumptionToken # req.ResumptionToken
           THEN /\ req' = Continuation(req, t.resumptionToken)
                /\ pc' = "Perform"
           ELSE /\ pc' = "Done"
                /\ UNCHANGED req
    /\ UNCHANGED <<strategy, httpReply, oaiResponse, url, nreq, ncb, items,
                   k, j, i, chanVars, ret>>

HarvestFurther ==
    /\ pc = "HarvestFurther"
    /\ LET t == ResumptionToken(oaiResponse)
       IN  IF t.hasResumptionToken = TRUE
           THEN /\ req' = Continuation(req, t.resumptionToken)
                /\ pc' = "Perform"
           ELSE /\ pc' = "Done"
                /\ UNCHANGED req
    /\ UNCHANGED <<strategy, httpReply, oaiResponse, url, nreq, ncb, items,
                   k, j, i, chanVars, ret>>

Next ==
    \/ Harvest
    \/ HarvestIdentifiers
    \/ HarvestRecords
    \/ ChannelHarvestIdentifiers
    \/ Perform
    \/ httpGet
    \/ ReadAll
    \/ batchCallback
    \/ HeaderCallback
    \/ RecordCallback
    \/ RangeHeader
    \/ ChannelSend
    \/ ChannelIndexPanic
    \/ SentinelSend
    \/ \E ch \in 0..(nchan - 1) : ConsumerReceive(ch)
    \/ \E ch \in 0..(nchan - 1) : ConsumerStop(ch)
    \/ HarvestFurther

Spec == Init /\ [][Next]_vars

(***************************************************************************)
(* A fan-out harvest under fair scheduling: no request fails, the remote   *)
(* serves a token-less page as its last, and the consumer of every         *)
(* channel keeps receiving until it gets the sentinel.  The driver is one  *)
(* goroutine and every consumer another.                                   *)
(***************************************************************************)
\* http.Get returns a response.
httpGetServed ==
    /\ httpGet
    /\ httpReply'.failure = "none"

\* The body is read and decoded; the last page the remote serves has no
\* token.
ReadAllServed ==
    /\ ReadAll
    /\ pc' = "batchCallback"
    /\ nreq = MaxPages => ~ResumptionToken(oaiResponse').hasResumptionToken

Driver ==
    \/ ChannelHarvestIdentifiers
    \/ Perform
    \/ httpGetServed
    \/ ReadAllServed
    \/ batchCallback
    \/ RangeHeader
    \/ ChannelSend
    \/ ChannelIndexPanic
    \/ SentinelSend
    \/ HarvestFurther

Consumer(ch) == ch < nchan /\ ConsumerReceive(ch)

NextFair ==
    \/ Driver
    \/ \E ch \in 0..(MaxChannels - 1) : Consumer(ch)

\* main's Request, as constructed.
InitFair ==
    /\ req = MainRequest
    /\ caller = req
    /\ loopvar \in RangeVariable
    /\ oaiResponse = Nil
    /\ Blank

SpecFair ==
    /\ InitFair
    /\ [][NextFair]_vars
    /\ WF_vars(Driver)
    /\ \A ch \in 0..(MaxChannels - 1) : WF_vars(Consumer(ch))

(***************************************************************************)
(* Request.String called on its own, for every combination of empty and    *)
(* non-empty parameters.                                                   *)
(***************************************************************************)
InitString ==
    /\ req \in RequestAll
    /\ caller = req
    /\ loopvar \in RangeVariable
    /\ oaiResponse = Nil
    /\ Blank

CallString ==
    /\ pc = "idle"
    /\ ret' = [String |-> String(req)]
    /\ pc' = "returned"
    /\ UNCHANGED <<req, strategy, httpReply, oaiResponse, url, nreq, ncb, items,
                   k, j, i, chanVars>>

SpecString == InitString /\ [][CallString]_vars

(***************************************************************************)
(* Response.ResumptionToken called on its own, on nil and on Responses     *)
(* with any tokens in the two list shapes.                                 *)
(***************************************************************************)
TokensAll == {"", "t1", "t2"}

ResponseAll ==
    { [Error |-> e,
       ListIdentifiers |-> ListIdentifiers(1, n1, t1),
       ListRecords |-> ListRecords(1, n2, t2)] :
          e \in OAIError, n1 \in 0..MaxItems, n2 \in 0..MaxItems,
          t1 \in TokensAll, t2 \in TokensAll }

InitToken ==
    /\ req = BareRequest
    /\ caller = req
    /\ loopvar \in RangeVariable
    /\ oaiResponse \in {Nil} \cup ResponseAll
    /\ Blank

CallResumptionToken ==
    /\ pc = "idle"
    /\ ret' = ResumptionToken(oaiResponse)
    /\ pc' = "returned"
    /\ UNCHANGED <<req, strategy, httpReply, oaiResponse, url, nreq, ncb, items,
                   k, j, i, chanVars>>

SpecToken == InitToken /\ [][CallResumptionToken]_vars

(***************************************************************************)
(* Reading a request target back: the pairs of its query string.           *)
(***************************************************************************)
RECURSIVE Find(_, _, _)
Find(s, c, from) ==
    IF from > Len(s) THEN 0
    ELSE IF SubSeq(s, from, from) = c THEN from
    ELSE Find(s, c, from + 1)

RECURSIVE Split(_, _)
Split(s, c) ==
    LET p == Find(s, c, 1)
    IN  IF p = 0 THEN <<s>>
        ELSE <<SubSeq(s, 1, p - 1)>> \o Split(SubSeq(s, p + 1, Len(s)), c)

Address(u) == SubSeq(u, 1, Find(u, "?", 1) - 1)

Query(u) == SubSeq(u, Find(u, "?", 1) + 1, Len(u))

Pair(piece) ==
    LET e == Find(piece, "=", 1)
    IN  [name |-> SubSeq(piece, 1, e - 1), value |-> SubSeq(piece, e + 1, Len(piece))]

RECURSIVE PairsOf(_)
PairsOf(pieces) ==
    IF pieces = <<>> THEN <<>>
    ELSE <<Pair(Head(pieces))>> \o PairsOf(Tail(pieces))

Pairs(u) == IF Query(u) = "" THEN <<>> ELSE PairsOf(Split(Query(u), "&"))

HasParam(u, name) == \E x \in 1..Len(Pairs(u)) : Pairs(u)[x].name = name

Param(u, name) ==
    LET ps == Pairs(u)
    IN  IF \E x \in 1..Len(ps) : ps[x].name = name
        THEN ps[CHOOSE x \in 1..Len(ps) : ps[x].name = name].value
        ELSE ""

(***************************************************************************)
(* Reading the state and the logs.                                         *)
(***************************************************************************)
\* The token a page carries: the ListIdentifiers one, else the ListRecords one.
TokenOf(page) ==
    IF page.ListIdentifiers.ResumptionToken # ""
    THEN page.ListIdentifiers.ResumptionToken
    ELSE page.ListRecords.ResumptionToken

FanOut == strategy = "ChannelHarvestIdentifiers"

IsReal(e) == e.item # Nil

RealSends == SelectSeq(sendLog, IsReal)

\* The page of a header and its 0-indexed position within that page.
PageOf(h) == h.Identifier \div 10

PosInPage(h) == h.Identifier - 10 * PageOf(h) - 1

\* The headers of page p that have been sent.
SentOfPage(p) == {g \in 1..Len(RealSends) : RealSends[g].page = p}

Sentinels(ch) ==
    Cardinality({g \in 1..Len(sendLog) :
                    sendLog[g].channel = ch /\ sendLog[g].item = Nil})

\* The sends follow the wire: each header is sent while its own page is the
\* current one, a page's headers go out from position 0 on without a gap,
\* and the pages go out in the order of their requests.
WireOrder ==
    \A g \in 1..Len(RealSends) :
        /\ PageOf(RealSends[g].item) = RealSends[g].page
        /\ PosInPage(RealSends[g].item)
             = Cardinality({h \in SentOfPage(RealSends[g].page) : h < g})
        /\ \A h \in 1..(g - 1) : RealSends[h].page <= RealSends[g].page

(***************************************************************************)
(* C1 as stated: the i-th header of the whole harvest, counted             *)
(* cumulatively across the pages, is sent to channel i mod N.              *)
(***************************************************************************)
C1_CumulativeRoundRobin ==
    (FanOut /\ nchan > 0) =>
        \A g \in 1..Len(RealSends) : RealSends[g].channel = (g - 1) % nchan

(***************************************************************************)
(* C1 amended: the headers are sent in wire order, and the header at       *)
(* 0-indexed position i of its own page (the index starts again at 0 on    *)
(* every page) is sent to channel i mod N.                                 *)
(***************************************************************************)
C1_PerPageRoundRobin ==
    (FanOut /\ nchan > 0) =>
        /\ WireOrder
        /\ \A g \in 1..Len(RealSends) :
              RealSends[g].channel = PosInPage(RealSends[g].item) % nchan

\* Two channels, one header on page 1, and a header of page 2 sent.
C1_Witness ==
    /\ FanOut
    /\ nchan = 2
    /\ Len(RealSends) = 2
    /\ RealSends[1].page = 1
    /\ RealSends[2].page = 2

(***************************************************************************)
(* C2: in a fan-out harvest no channel gets more than one nil sentinel,    *)
(* every channel has got exactly one when the harvest returns, a sentinel  *)
(* is sent only on a page without a token and after all headers of that    *)
(* page have been sent, and nothing but sentinels follows a sentinel.      *)
(* (The driver has no operation that closes a channel.)                    *)
(***************************************************************************)
C2_SentinelOncePerChannel ==
    FanOut =>
        /\ \A ch \in 0..(nchan - 1) : Sentinels(ch) <= 1
        /\ pc = "Done" => \A ch \in 0..(nchan - 1) : Sentinels(ch) = 1
        /\ \A g, h \in 1..Len(sendLog) :
              (g < h /\ sendLog[g].item = Nil) => sendLog[h].item = Nil
        /\ \A g \in 1..Len(sendLog) :
              sendLog[g].item = Nil =>
                  /\ sendLog[g].page = nreq
                  /\ TokenOf(oaiResponse) = ""
                  /\ Cardinality(SentOfPage(nreq))
                       = Len(oaiResponse.ListIdentifiers.Headers)

\* A two-page fan-out harvest over two channels has returned.
C2_Witness ==
    /\ FanOut
    /\ pc = "Done"
    /\ nchan = 2
    /\ nreq = 2
    /\ Len(RealSends) >= 2
    /\ Sentinels(0) = 1 /\ Sentinels(1) = 1

(***************************************************************************)
(* C3: the requests and the batch callbacks go one to one with the pages.  *)
(* A request is issued only when every earlier page has been handed to     *)
(* the callback; every request but the first follows a page that carried   *)
(* a token and carries that token unchanged; a page with a token is        *)
(* followed by a request and a page without one ends the harvest, with as  *)
(* many requests as callbacks.                                             *)
(***************************************************************************)
LastToken == IF oaiResponse = Nil THEN "" ELSE TokenOf(oaiResponse)

C3_Step ==
    /\ nreq' # nreq =>
          /\ nreq' = nreq + 1
          /\ ncb = nreq
          /\ nreq >= 1 => /\ LastToken # ""
                          /\ Param(url', "resumptionToken") = LastToken
    /\ ncb' # ncb => (ncb' = ncb + 1 /\ ncb' = nreq)
    /\ pc' = "Done" => (nreq' = ncb' /\ LastToken' = "")
    /\ (pc = "HarvestFurther" /\ pc' # pc) =>
          pc' = IF LastToken = "" THEN "Done" ELSE "Perform"

C3_OneRequestPerPage == [][C3_Step]_vars

\* A harvest of two pages has returned; its second request carried "t1".
C3_Witness ==
    /\ pc = "Done"
    /\ strategy = "Harvest"
    /\ nreq = 2
    /\ ncb = 2
    /\ Param(url, "resumptionToken") = "t1"

(***************************************************************************)
(* C4 as stated: every continuation request has no set, metadataPrefix or  *)
(* from parameter and has verb and resumptionToken, plus identifier and    *)
(* until exactly when the caller set them.                                 *)
(***************************************************************************)
\* The parameter names of a query string, and the value given to a name.
Names(ps) == {ps[x].name : x \in 1..Len(ps)}

Value(ps, name) ==
    IF name \in Names(ps)
    THEN ps[CHOOSE x \in 1..Len(ps) : ps[x].name = name].value
    ELSE ""

\* The step issues a continuation request.
ContinuationRequest == nreq' = nreq + 1 /\ nreq >= 1

C4_StatedStep ==
    ContinuationRequest =>
        \E ps \in {Pairs(url')} :
            /\ {"set", "metadataPrefix", "from"} \cap Names(ps) = {}
            /\ {"verb", "resumptionToken"} \subseteq Names(ps)
            /\ ("identifier" \in Names(ps)) <=> (caller.Identifier # "")
            /\ ("until" \in Names(ps)) <=> (caller.Until # "")

C4_ContinuationHasVerb == [][C4_StatedStep]_vars

(***************************************************************************)
(* C4 amended: every continuation request has no set, metadataPrefix or    *)
(* from parameter and has resumptionToken; it has verb, identifier and     *)
(* until exactly when these are non-empty in the Request, which for verb   *)
(* is always so under HarvestIdentifiers, HarvestRecords and               *)
(* ChannelHarvestIdentifiers, and under Harvest only when the caller set   *)
(* a verb.                                                                 *)
(***************************************************************************)
C4_AmendedStep ==
    ContinuationRequest =>
        \E ps \in {Pairs(url')} :
            /\ {"set", "metadataPrefix", "from"} \cap Names(ps) = {}
            /\ "resumptionToken" \in Names(ps)
            /\ ("verb" \in Names(ps)) <=> (req.Verb # "")
            /\ strategy = "Harvest" => req.Verb = caller.Verb
            /\ strategy # "Harvest" => "verb" \in Names(ps)
            /\ ("identifier" \in Names(ps)) <=> (caller.Identifier # "")
            /\ ("until" \in Names(ps)) <=> (caller.Until # "")
            /\ Value(ps, "verb") = req.Verb
            /\ Value(ps, "identifier") = caller.Identifier
            /\ Value(ps, "until") = caller.Until

C4_ContinuationQuery == [][C4_AmendedStep]_vars

\* The continuation request of a Harvest started with main's Request, which
\* set the three filters and no verb.
C4_Witness ==
    /\ nreq = 2
    /\ strategy = "Harvest"
    /\ caller = MainRequest
    /\ url = "http://services.kb.nl/mdo/oai?resumptionToken=t1"

(***************************************************************************)
(* C5: String returns the base address, "?", and the name=value pairs of   *)
(* exactly the non-empty parameters, in the order verb, set,               *)
(* metadataPrefix, resumptionToken, identifier, from, until, joined by     *)
(* "&", the values copied as they are and nothing else added.              *)
(***************************************************************************)
NonEmpty(pair) == pair.value # ""

Parameters(r) ==
    <<[name |-> "verb", value |-> r.Verb],
      [name |-> "set", value |-> r.Set],
      [name |-> "metadataPrefix", value |-> r.MetadataPrefix],
      [name |-> "resumptionToken", value |-> r.ResumptionToken],
      [name |-> "identifier", value |-> r.Identifier],
      [name |-> "from", value |-> r.From],
      [name |-> "until", value |-> r.Until]>>

RECURSIVE QueryLen(_)
QueryLen(pairs) ==
    IF pairs = <<>> THEN 0
    ELSE Len(Head(pairs).name) + 1 + Len(Head(pairs).value)
         + (IF Len(pairs) > 1 THEN 1 ELSE 0) + QueryLen(Tail(pairs))

C5_StringFormat ==
    (pc = "returned" /\ "String" \in DOMAIN ret) =>
        LET want == SelectSeq(Parameters(req), NonEmpty)
        IN  /\ Address(ret.String) = req.BaseUrl
            /\ Pairs(ret.String) = want
            /\ Len(ret.String) = Len(req.BaseUrl) + 1 + QueryLen(want)
            /\ \A x \in 1..7 :
                  Parameters(req)[x].value = "" =>
                      ~HasParam(ret.String, Parameters(req)[x].name)

\* Some parameters empty and some not.
C5_Witness ==
    /\ pc = "returned"
    /\ req.Set = "" /\ req.ResumptionToken = "" /\ req.From = ""
    /\ ret = [String |->
         "http://kb.nl/oai?verb=GetRecord&metadataPrefix=dcx&identifier=oai:1&until=2013"]

(***************************************************************************)
(* C6: ResumptionToken returns (false, "") exactly for nil and for a       *)
(* Response whose two token fields are empty; the ListIdentifiers token    *)
(* when that is non-empty, whatever the ListRecords token; otherwise the   *)
(* ListRecords token; and present is true exactly when the token is        *)
(* non-empty.                                                              *)
(***************************************************************************)
C6_TokenDetection ==
    (pc = "returned" /\ "hasResumptionToken" \in DOMAIN ret) =>
        /\ ret.hasResumptionToken <=> (ret.resumptionToken # "")
        /\ oaiResponse = Nil => ret.resumptionToken = ""
        /\ oaiResponse # Nil =>
              LET li == oaiResponse.ListIdentifiers.ResumptionToken
                  lr == oaiResponse.ListRecords.ResumptionToken
              IN  /\ (li = "" /\ lr = "") <=> ~ret.hasResumptionToken
                  /\ li # "" => ret.resumptionToken = li
                  /\ li = "" => ret.resumptionToken = lr

\* Both token fields non-empty and different: the ListIdentifiers one wins.
C6_Witness ==
    /\ pc = "returned"
    /\ oaiResponse # Nil
    /\ oaiResponse.ListIdentifiers.ResumptionToken = "t1"
    /\ oaiResponse.ListRecords.ResumptionToken = "t2"
    /\ ret = [hasResumptionToken |-> TRUE, resumptionToken |-> "t1"]

(***************************************************************************)
(* C7: HarvestIdentifiers and HarvestRecords call the per-item callback    *)
(* once for every item of every page, in wire order within the page and    *)
(* page by page, and the callbacks of a page have all returned before the  *)
(* next request is issued.                                                 *)
(***************************************************************************)
PerItem == strategy \in {"HarvestIdentifiers", "HarvestRecords"}

\* The items of the current page that the strategy in use iterates.
PageItems ==
    IF strategy = "HarvestIdentifiers"
    THEN oaiResponse.ListIdentifiers.Headers
    ELSE oaiResponse.ListRecords.Records

LastItems(n) == SubSeq(items, Len(items) - n + 1, Len(items))

\* The callbacks made for the current page are its first k items, and all
\* of its items once its callback has returned.
C7_Page ==
    /\ pc = "range" =>
          /\ k < Len(PageItems)
          /\ Len(items) >= k
          /\ LastItems(k) = SubSeq(PageItems, 1, k)
    /\ (pc \in {"HarvestFurther", "Done"} \/ (pc = "Perform" /\ nreq >= 1)) =>
          /\ Len(items) >= Len(PageItems)
          /\ LastItems(Len(PageItems)) = PageItems

C7_Step ==
    PerItem' =>
        /\ C7_Page'
        /\ items' # items =>
              /\ pc = "range"
              /\ items' = Append(items, PageItems[k + 1])
        /\ pc = "batchCallback" => items' = items
        /\ nreq' # nreq => (nreq >= 1 => LastItems(Len(PageItems)) = PageItems)

C7_PerItemOrder == [][C7_Step]_vars

\* HarvestRecords has returned from two pages of two records each.
C7_Witness ==
    /\ strategy = "HarvestRecords"
    /\ pc = "Done"
    /\ items = <<Record(1, 1), Record(1, 2), Record(2, 1), Record(2, 2)>>

(***************************************************************************)
(* C8 as stated: every send blocks until the consumer has accepted the     *)
(* item, so that no request is issued while an item is unaccepted,         *)
(* whatever channels the caller supplies.                                  *)
(***************************************************************************)
AllAccepted == \A ch \in 0..(nchan - 1) : buf[ch + 1] = <<>>

C8_RequestOnlyWhenAllAccepted ==
    [][(FanOut /\ nreq' # nreq) => AllAccepted]_vars

(***************************************************************************)
(* C8 amended: a send blocks until the channel takes the item.  On a       *)
(* channel of capacity 0 that is when its consumer accepts it, so no       *)
(* request is issued while an item is unaccepted; on a buffered channel    *)
(* it is when the buffer has room, so at most its capacity of items is     *)
(* unaccepted.  When the send the driver has come to is to a channel       *)
(* whose consumer has stopped receiving and whose buffer is full, the      *)
(* harvest stalls: no further send on any channel and no further request.  *)
(***************************************************************************)
Target == IF pc = "range" THEN i ELSE j

Stalled ==
    /\ FanOut
    /\ pc \in {"range", "sentinel"}
    /\ nchan > 0
    /\ consumer[Target + 1] = "stopped"
    /\ Len(buf[Target + 1]) = capacity

RECURSIVE Held(_)
Held(ch) ==
    IF ch = 0 THEN 0
    ELSE Len(received[ch]) + Len(buf[ch]) + Held(ch - 1)

C8_Step ==
    FanOut =>
        /\ \A ch \in 0..(nchan - 1) : Len(buf[ch + 1]) <= capacity
        /\ Len(sendLog) = Held(nchan)
        /\ (sendLog' # sendLog /\ capacity = 0) =>
              /\ consumer[Target + 1] = "recv"
              /\ received'[Target + 1]
                   = Append(received[Target + 1], sendLog'[Len(sendLog')].item)
        /\ (nreq' # nreq /\ capacity = 0) => Len(sendLog) = Held(nchan) /\ AllAccepted
        /\ Stalled => (Stalled' /\ sendLog' = sendLog /\ nreq' = nreq /\ pc' = pc)

C8_Backpressure == [][C8_Step]_vars

\* Unbuffered channels: the consumer of channel 1 has stopped, the driver is
\* at the send of the second header of a page with a token, and the consumer
\* of channel 0 is still receiving.
C8_Witness ==
    /\ Stalled
    /\ capacity = 0
    /\ nchan = 2
    /\ pc = "range"
    /\ i = 1
    /\ consumer[1] = "recv"
    /\ TokenOf(oaiResponse) # ""
    /\ nreq < MaxPages

(***************************************************************************)
(* C9: when http.Get, reading the body or decoding it fails, the harvest   *)
(* is aborted by a panic at that page: the callback is not invoked for     *)
(* the page, and afterwards there is no request, no callback, no send and  *)
(* no return.                                                              *)
(***************************************************************************)
Failed == httpReply.failure # "none"

C9_Step ==
    /\ Failed' =>
          /\ pc' = "Panic"
          /\ ret' = [panic |-> httpReply'.failure]
          /\ ncb' = nreq' - 1
    /\ Failed =>
          /\ nreq' = nreq /\ ncb' = ncb /\ url' = url /\ req' = req
          /\ items' = items /\ sendLog' = sendLog

C9_FailureAborts == [][C9_Step]_vars

\* The second page's body did not decode.
C9_Witness ==
    /\ pc = "Panic"
    /\ httpReply.failure = "Unmarshal"
    /\ nreq = 2
    /\ ncb = 1

(***************************************************************************)
(* C10 as stated: a response with a non-success status is fatal: it is     *)
(* never decoded into a Response that Perform returns and the callback     *)
(* gets.                                                                   *)
(***************************************************************************)
Success(code) == code >= 200 /\ code <= 299

\* Perform goes on from the response http.Get returned.
AfterGet == pc = "ioutil.ReadAll" /\ pc' # pc

C10_Step ==
    (AfterGet /\ ~Success(httpReply.StatusCode)) =>
        (pc' = "Panic" /\ oaiResponse' = oaiResponse)

C10_NonSuccessIsFatal == [][C10_Step]_vars

(***************************************************************************)
(* C11: a decoded response with a protocol-level error envelope and no     *)
(* token is handed to the batch callback once, like any other page, and    *)
(* the harvest then returns without a further request; whether Harvest     *)
(* goes on or returns is the same as for the response without its error.   *)
(***************************************************************************)
IsError(resp) == resp # Nil /\ resp.Error.Code # ""

WithoutError(resp) == [resp EXCEPT !.Error = [Code |-> ""]]

C11_Step ==
    /\ (AfterGet /\ ~Failed' /\ IsError(oaiResponse')) =>
          (pc' = "batchCallback" /\ ret' = ret /\ ncb' = nreq' - 1)
    /\ (pc = "batchCallback" /\ pc' # pc /\ IsError(oaiResponse)) =>
          (ncb' = ncb + 1 /\ ncb' = nreq /\ oaiResponse' = oaiResponse)
    /\ (pc = "HarvestFurther" /\ pc' # pc) =>
          /\ pc' = IF ResumptionToken(WithoutError(oaiResponse)).hasResumptionToken
                   THEN "Perform" ELSE "Done"
          /\ nreq' = nreq /\ ncb' = ncb
    /\ (IsError(oaiResponse) /\ LastToken = "" /\ ncb = nreq) =>
          (nreq' = nreq /\ ncb' = ncb /\ pc' # "Panic")

C11_ErrorEnvelopeIsAPage == [][C11_Step]_vars

\* HarvestRecords has returned after one page that was an error envelope.
C11_Witness ==
    /\ strategy = "HarvestRecords"
    /\ pc = "Done"
    /\ IsError(oaiResponse)
    /\ LastToken = ""
    /\ nreq = 1
    /\ ncb = 1
    /\ ret = Nil

(***************************************************************************)
(* C12: at most one page is in flight.  A request is issued only when the  *)
(* batch callback has returned for every page that arrived; the n-th       *)
(* invocation of the batch callback gets the n-th page that arrived, the   *)
(* response Perform returned last, and every page gets one invocation.     *)
(***************************************************************************)
\* The pages that have arrived, and the batch callbacks that have returned.
Outstanding == pc \in {"http.Get", "ioutil.ReadAll"}

Arrived == IF Outstanding \/ Failed THEN nreq - 1 ELSE nreq

InCallback ==
    \/ pc \in {"range", "sentinel"}
    \/ pc = "Panic" /\ ~Failed

Returned == IF InCallback THEN ncb - 1 ELSE ncb

InFlight == Arrived - Returned

C12_Step ==
    /\ InFlight' \in {0, 1}
    /\ Returned' <= Arrived'
    /\ nreq' # nreq =>
          /\ pc = "Perform"
          /\ InFlight = 0
          /\ Returned = nreq
    /\ ncb' # ncb =>
          /\ ncb' = ncb + 1
          /\ ncb' = Arrived
          /\ InFlight = 1
          /\ oaiResponse' = oaiResponse
    /\ oaiResponse' # oaiResponse =>
          (pc = "ioutil.ReadAll" /\ Arrived' = Arrived + 1 /\ ncb' = ncb)
    /\ Outstanding' => (InFlight' = 0 /\ Returned' = nreq' - 1)
    /\ pc' = "Done" => (InFlight' = 0 /\ ncb' = nreq')

C12_OnePageInFlight == [][C12_Step]_vars

\* HarvestIdentifiers is in the callback of its second page, between the
\* two headers of that page.
C12_Witness ==
    /\ strategy = "HarvestIdentifiers"
    /\ pc = "range"
    /\ nreq = 2
    /\ ncb = 2
    /\ k = 1
    /\ InFlight = 1
    /\ Returned = 1

(***************************************************************************)
(* C13: Harvest has no page cap, depth bound or cycle detection.  As long  *)
(* as the last response carried a token Harvest does not return: whatever  *)
(* the number of pages so far, and also when the token is the one the      *)
(* request just carried, it installs the token and comes to the next       *)
(* request, which can be issued (up to the number of pages the model       *)
(* lets the remote serve).                                                 *)
(***************************************************************************)
C13_NoPageCap ==
    /\ pc = "Done" => LastToken = ""
    /\ (pc = "HarvestFurther" /\ LastToken # "") => ENABLED HarvestFurther
    /\ (pc = "Perform" /\ nreq >= 1) =>
          /\ LastToken # ""
          /\ req.ResumptionToken = LastToken
          /\ ncb = nreq
    /\ (pc = "Perform" /\ nreq < MaxPages) => ENABLED Perform
    /\ pc = "http.Get" => ENABLED httpGet
    /\ pc = "ioutil.ReadAll" => ENABLED ReadAll

\* Every page so far carried the token "t1", the last request carried it
\* too, and Harvest has come to the next request.
C13_Witness ==
    /\ pc = "Perform"
    /\ nreq = MaxPages
    /\ ncb = MaxPages
    /\ LastToken = "t1"
    /\ req.ResumptionToken = "t1"
    /\ Param(url, "resumptionToken") = "t1"

(***************************************************************************)
(* C14: HarvestIdentifiers and ChannelHarvestIdentifiers set the verb to   *)
(* ListIdentifiers and HarvestRecords sets it to ListRecords before the    *)
(* first request, whatever verb the caller supplied and leaving the other  *)
(* fields alone; the Request keeps that verb for the whole harvest and     *)
(* every request of the harvest carries it.                                *)
(***************************************************************************)
FixedVerb(s) == IF s = "HarvestRecords" THEN "ListRecords" ELSE "ListIdentifiers"

FixesVerb(s) ==
    s \in {"HarvestIdentifiers", "HarvestRecords", "ChannelHarvestIdentifiers"}

C14_Step ==
    /\ (strategy' # strategy /\ FixesVerb(strategy')) =>
          /\ nreq = 0
          /\ req' = [req EXCEPT !.Verb = FixedVerb(strategy')]
    /\ FixesVerb(strategy') => req'.Verb = FixedVerb(strategy')
    /\ (nreq' # nreq /\ FixesVerb(strategy)) =>
          \E ps \in {Pairs(url')} :
              /\ Value(ps, "verb") = FixedVerb(strategy)
              /\ ps[1] = [name |-> "verb", value |-> FixedVerb(strategy)]
              /\ Cardinality({x \in 1..Len(ps) : ps[x].name = "verb"}) = 1

C14_VerbFixed == [][C14_Step]_vars

\* The caller supplied the verb GetRecord and called HarvestRecords, whose
\* continuation request has been issued with the verb ListRecords.
C14_Witness ==
    /\ strategy = "HarvestRecords"
    /\ caller.Verb = "GetRecord"
    /\ nreq = 2
    /\ Param(url, "verb") = "ListRecords"
    /\ Param(url, "resumptionToken") = "t1"

(***************************************************************************)
(* C15 as stated: in the fan-out strategy, whenever a consumer reads the   *)
(* header through a reference it has received, it reads the header the     *)
(* driver sent at that position: the variable a sent reference points to   *)
(* is not changed afterwards.                                              *)
(***************************************************************************)
\* What a consumer reads now through the reference r.
Deref(r) == header[r.loop][r.var]

C15_ReferenceKeepsItsHeader ==
    FanOut =>
        \A ch \in 1..nchan : \A x \in 1..Len(received[ch]) :
            received[ch][x] # Nil =>
                Deref(received[ch][x]).Identifier = received[ch][x].Identifier

(***************************************************************************)
(* C16: in a fan-out harvest every header of every page is sent once and   *)
(* to one channel.  The sends of a page, when its loop ends, are its       *)
(* headers in wire order, and earlier sends are never changed; no header   *)
(* is sent twice; on every channel what the consumer has received,         *)
(* followed by what the channel still buffers, is what was sent to that    *)
(* channel, in the order of sending.  So when the harvest has returned     *)
(* and every consumer has taken its sentinel, the real items received      *)
(* over all channels are as many as the headers sent, and with unbuffered  *)
(* channels that is so as soon as the harvest returns.                     *)
(***************************************************************************)
\* The items sent to channel ch, in the order of sending.
ItemsTo(ch) ==
    LET e == SelectSeq(sendLog, LAMBDA x : x.channel = ch)
    IN  [g \in 1..Len(e) |-> e[g].item]

\* The identifiers sent for the current page, in the order of sending.
PageSends ==
    LET e == SelectSeq(RealSends, LAMBDA x : x.page = nreq)
    IN  [g \in 1..Len(e) |-> e[g].item.Identifier]

NotNil(v) == v # Nil

RECURSIVE RealReceived(_)
RealReceived(ch) ==
    IF ch = 0 THEN 0
    ELSE Len(SelectSeq(received[ch], NotNil)) + RealReceived(ch - 1)

Drained == \A ch \in 1..nchan : consumer[ch] = "done"

C16_State ==
    /\ \A ch \in 0..(nchan - 1) : received[ch + 1] \o buf[ch + 1] = ItemsTo(ch)
    /\ \A g, h \in 1..Len(RealSends) :
          RealSends[g].item.Identifier = RealSends[h].item.Identifier => g = h
    /\ pc = "range" => PageSends = [x \in 1..k |-> Headers[x].Identifier]
    /\ pc \in {"sentinel", "HarvestFurther", "Done"} =>
          PageSends = [x \in 1..Len(Headers) |-> Headers[x].Identifier]
    /\ (pc = "Done" /\ Drained) => RealReceived(nchan) = Len(RealSends)
    /\ (pc = "Done" /\ capacity = 0) => Drained

C16_Step ==
    FanOut =>
        /\ C16_State'
        /\ \/ sendLog' = sendLog
           \/ /\ Len(sendLog') = Len(sendLog) + 1
              /\ SubSeq(sendLog', 1, Len(sendLog)) = sendLog
              /\ sendLog'[Len(sendLog')].page = nreq
              /\ pc = "range" =>
                    sendLog'[Len(sendLog')].item.Identifier = Headers[k + 1].Identifier

C16_EveryHeaderOnce == [][C16_Step]_vars

\* A harvest of two pages of two headers each over two unbuffered channels
\* has returned.
C16_Witness ==
    /\ FanOut
    /\ pc = "Done"
    /\ nchan = 2
    /\ capacity = 0
    /\ Len(RealSends) = 4
    /\ RealReceived(2) = 4
    /\ received[1] = <<[loop |-> 1, var |-> 1, Identifier |-> 11],
                       [loop |-> 2, var |-> 1, Identifier |-> 21], Nil>>
    /\ received[2] = <<[loop |-> 1, var |-> 2, Identifier |-> 12],
                       [loop |-> 2, var |-> 2, Identifier |-> 22], Nil>>

(***************************************************************************)
(* C17 as stated: in a fan-out harvest in which no request fails, the      *)
(* remote ends with a token-less page and every channel's consumer keeps   *)
(* receiving, under fair scheduling the harvest eventually returns and     *)
(* every consumer eventually receives its sentinel, and in no reachable    *)
(* state are the driver and the consumers all blocked.                     *)
(***************************************************************************)
\* Neither the driver nor any consumer can take a step, and the harvest
\* has not ended; or it has returned and a consumer waits with nothing to
\* receive.
Blocked ==
    /\ ~ENABLED NextFair
    /\ \/ pc \notin {"Done", "Panic"}
       \/ pc = "Done" /\ ~Drained

Finished == pc = "Done" /\ Drained

C17_FanOutTerminates == [](~Blocked) /\ <>Finished

(***************************************************************************)
(* C17 amended: under the same conditions and with at least one channel,   *)
(* the harvest eventually returns and every consumer eventually receives   *)
(* its sentinel, and in no reachable state are the driver and the          *)
(* consumers all blocked.  With an empty channel collection the harvest    *)
(* returns only if every page is empty: at the first header it panics      *)
(* with an index out of range, and it panics in no other case.             *)
(***************************************************************************)
EmptyPanic ==
    /\ nchan = 0
    /\ pc = "Panic"
    /\ ret = [panic |-> "index out of range"]
    /\ Len(Headers) > 0
    /\ sendLog = <<>>

C17_FanOutTerminatesWithChannels ==
    /\ [](~Blocked)
    /\ [](pc = "Panic" => EmptyPanic)
    /\ <>(Finished \/ EmptyPanic)

\* Two buffered channels, two pages: the harvest has returned and both
\* consumers have taken their sentinels.
C17_Witness ==
    /\ FanOut
    /\ Finished
    /\ nchan = 2
    /\ capacity = 1
    /\ nreq = 2
    /\ Len(RealSends) >= 3
    /\ buf = <<<<>>, <<>>>>

(***************************************************************************)
(* C18: when a fan-out harvest is aborted by a failure of http.Get, of     *)
(* reading the body or of decoding it, at any page, no sentinel has been   *)
(* sent on any channel and none is sent afterwards: no channel holds a     *)
(* nil and no consumer has received one, and a consumer that was           *)
(* receiving is still waiting.  (The driver has no operation that closes   *)
(* a channel.)                                                             *)
(***************************************************************************)
HoldsNil(seq) == \E x \in 1..Len(seq) : seq[x] = Nil

C18_AbortSendsNoSentinel ==
    (FanOut /\ Failed) =>
        /\ pc = "Panic"
        /\ \A g \in 1..Len(sendLog) : sendLog[g].item # Nil
        /\ \A ch \in 0..(nchan - 1) :
              /\ Sentinels(ch) = 0
              /\ ~HoldsNil(buf[ch + 1])
              /\ ~HoldsNil(received[ch + 1])
              /\ consumer[ch + 1] \in {"recv", "stopped"}

\* The second request failed after the two headers of the first page had
\* gone to the two channels, whose consumers are still receiving.
C18_Witness ==
    /\ FanOut
    /\ Failed
    /\ nreq = 2
    /\ nchan = 2
    /\ Len(RealSends) = 2
    /\ consumer = <<"recv", "recv">>

(***************************************************************************)
(* C19: Harvest never changes the base address, the identifier, until or   *)
(* the verb of the Request.  It changes the Request only after a response  *)
(* that carried a token, and then sets set, metadataPrefix and from to     *)
(* empty and resumptionToken to that token.  Nothing is restored: when a   *)
(* harvest of two or more pages has returned, set, metadataPrefix and      *)
(* from are empty and resumptionToken is the last token received, the one  *)
(* the last request carried; when a harvest of one page has returned, set, *)
(* metadataPrefix, from and resumptionToken are as the caller set them.    *)
(***************************************************************************)
C19_Step ==
    /\ req'.BaseUrl = caller.BaseUrl
    /\ req'.Identifier = caller.Identifier
    /\ req'.Until = caller.Until
    /\ strategy' = strategy => req'.Verb = req.Verb
    /\ (req' # req /\ strategy' = strategy) =>
          /\ pc = "HarvestFurther"
          /\ LastToken # ""
          /\ req' = [req EXCEPT !.Set = "", !.MetadataPrefix = "", !.From = "",
                                !.ResumptionToken = LastToken]
    /\ strategy' # strategy =>
          /\ req'.Set = req.Set
          /\ req'.MetadataPrefix = req.MetadataPrefix
          /\ req'.From = req.From
          /\ req'.ResumptionToken = req.ResumptionToken
    /\ (pc = "HarvestFurther" /\ pc' # pc /\ LastToken = "") => req' = req
    /\ (pc' = "Done" /\ nreq' = 1) =>
          /\ req'.Set = caller.Set
          /\ req'.MetadataPrefix = caller.MetadataPrefix
          /\ req'.From = caller.From
          /\ req'.ResumptionToken = caller.ResumptionToken
    /\ (pc' = "Done" /\ pc # pc' /\ nreq' >= 2) =>
          /\ req'.Set = ""
          /\ req'.MetadataPrefix = ""
          /\ req'.From = ""
          /\ req'.ResumptionToken # ""
          /\ req'.ResumptionToken = Param(url', "resumptionToken")

C19_RequestFrame == [][C19_Step]_vars

\* A harvest of two pages, started with every field of the Request set,
\* has returned.
C19_Witness ==
    /\ pc = "Done"
    /\ nreq = 2
    /\ caller = FullRequest
    /\ req = [FullRequest EXCEPT !.Set = "", !.MetadataPrefix = "", !.From = "",
                                 !.ResumptionToken = "t1"]

====
